---- MODULE Spec2Model ----
(***************************************************************************)
(* Model of ftp_bigquery_etl.py: a Pub/Sub-triggered function that fetches *)
(* yesterday's CSV export from an FTP server into the scratch directory,   *)
(* parses it into a dataframe, loads it into a BigQuery table and removes  *)
(* the scratch file.                                                       *)
(*                                                                         *)
(* Text that the program takes apart (base64 payload, host name, paths,    *)
(* file names) is a sequence of one-character strings; attribute values    *)
(* the program only passes on are plain strings.                           *)
(***************************************************************************)
EXTENDS Integers, Sequences, FiniteSets, TLC

VARIABLES
    today,        \* date.today(): <<year, month, day>>
    cwd,          \* the process's current working directory
    fs,           \* local file system: path -> [ino, by, rows, complete]
    table,        \* warehouse: table_ref -> num_rows
    pc,           \* per invocation: position in main / get_file_ftp
    event,        \* per invocation: the trigger event
    host,         \* per invocation: main's host (line 123)
    path,         \* per invocation: main's path (line 124)
    retr,         \* per invocation: file name sent in the RETR command
    wfpath,       \* per invocation: resolved path of the file opened as wf
    wf,           \* per invocation: inode the open handle wf writes to
    conn,         \* per invocation: state of ftp_conn's socket
    source,       \* per invocation: value returned by get_file_ftp
    data,         \* per invocation: rows of the dataframe
    job,          \* per invocation: state of load_job
    logged,       \* per invocation: table.num_rows reported at line 91
    result,       \* per invocation: how main ended
    steps,        \* history: the steps the invocation attempted, in order
    residue,      \* history: did the file opened as wf exist when main ended
    before,       \* history: invocations that had ended when this one began
    clobbered,    \* history: invocations whose fetched file another one
                  \* truncated or deleted before they had transformed it
    maxInFlight   \* history: most invocations ever in flight together

vars == <<today, cwd, fs, table, pc, event, host, path, retr, wfpath, wf, conn,
          source, data, job, logged, result, steps, residue, before, clobbered,
          maxInFlight>>

----------------------------------------------------------------------------
(* Bounds of the model *)

\* number of invocations of main a behaviour contains
MaxInv == 2
\* largest number of data rows a remote file holds
MaxRows == 2
\* last year of the range of invocation dates swept by SpecDates
LastYear == 2025

Inv == 1..MaxInv

----------------------------------------------------------------------------
(* Text helpers *)

\* s[i..] starts with p
StartsAt(s, i, p) ==
    /\ i + Len(p) - 1 <= Len(s)
    /\ \A k \in 1..Len(p) : s[i + k - 1] = p[k]

\* index of the first occurrence of p in s at or after i, 0 when there is none
RECURSIVE Find(_, _, _)
Find(s, i, p) ==
    IF i + Len(p) - 1 > Len(s) THEN 0
    ELSE IF StartsAt(s, i, p) THEN i
    ELSE Find(s, i + 1, p)

\* re.sub(p, '', s) for a pattern p without metacharacters: every
\* non-overlapping occurrence of p, leftmost first, is deleted
RECURSIVE re_sub_literal(_, _)
re_sub_literal(p, s) ==
    IF p = <<>> THEN s
    ELSE LET k == Find(s, 1, p) IN
         IF k = 0 THEN s
         ELSE SubSeq(s, 1, k - 1)
              \o re_sub_literal(p, SubSeq(s, k + Len(p), Len(s)))

\* re.findall('[^/]*$', s)[0]: the part of s after its last '/'
RECURSIVE LastSegment(_)
LastSegment(s) ==
    LET k == Find(s, 1, <<"/">>) IN
    IF k = 0 THEN s ELSE LastSegment(SubSeq(s, k + 1, Len(s)))

\* re.findall('ftp://[^/]*', s)[0] where s starts with 'ftp://':
\* 'ftp://' and what follows it up to the next '/'
FtpPrefix == <<"f", "t", "p", ":", "/", "/">>
FirstFtpUrlHead(s) ==
    LET k == Find(s, Len(FtpPrefix) + 1, <<"/">>) IN
    IF k = 0 THEN s ELSE SubSeq(s, 1, k - 1)

\* re.sub('/$', '', s)
StripTrailingSlash(s) ==
    IF s /= <<>> /\ s[Len(s)] = "/" THEN SubSeq(s, 1, Len(s) - 1) ELSE s

----------------------------------------------------------------------------
(* base64.b64decode(event['data']), line 105 *)

B64Alphabet ==
    << "A","B","C","D","E","F","G","H","I","J","K","L","M","N","O","P",
       "Q","R","S","T","U","V","W","X","Y","Z","a","b","c","d","e","f",
       "g","h","i","j","k","l","m","n","o","p","q","r","s","t","u","v",
       "w","x","y","z","0","1","2","3","4","5","6","7","8","9","+","/" >>

B64Value(c) == (CHOOSE k \in 1..64 : B64Alphabet[k] = c) - 1
IsB64Char(c) == \E k \in 1..64 : B64Alphabet[k] = c

\* The non-validating decoder: characters outside the alphabet are skipped,
\* a complete pad sequence ends the input, a dangling quad is an error.
RECURSIVE B64Loop(_, _, _, _, _, _)
B64Loop(s, i, quad, left, pads, out) ==
    IF i > Len(s)
    THEN [ok |-> quad = 0, bytes |-> out]
    ELSE LET c == s[i] IN
         IF c = "="
         THEN IF quad >= 2 /\ quad + pads + 1 >= 4
              THEN [ok |-> TRUE, bytes |-> out]
              ELSE B64Loop(s, i + 1, quad, left,
                           IF quad >= 2 THEN pads + 1 ELSE pads, out)
         ELSE IF ~IsB64Char(c)
         THEN B64Loop(s, i + 1, quad, left, pads, out)
         ELSE LET v == B64Value(c) IN
              CASE quad = 0 -> B64Loop(s, i + 1, 1, v, 0, out)
                [] quad = 1 -> B64Loop(s, i + 1, 2, v % 16, 0,
                                       Append(out, left * 4 + v \div 16))
                [] quad = 2 -> B64Loop(s, i + 1, 3, v % 4, 0,
                                       Append(out, left * 16 + v \div 4))
                [] quad = 3 -> B64Loop(s, i + 1, 0, 0, 0,
                                       Append(out, left * 64 + v))

b64decode(s) == B64Loop(s, 1, 0, 0, 0, <<>>)

----------------------------------------------------------------------------
(* bytes.decode('utf-8'), line 105: strict UTF-8 to code points *)

IsCont(b, k) == k <= Len(b) /\ b[k] >= 128 /\ b[k] <= 191
InRange(b, k, lo, hi) == k <= Len(b) /\ b[k] >= lo /\ b[k] <= hi

RECURSIVE Utf8Loop(_, _, _)
Utf8Loop(b, i, out) ==
    IF i > Len(b) THEN [ok |-> TRUE, text |-> out]
    ELSE LET c == b[i] IN
         IF c < 128 THEN Utf8Loop(b, i + 1, Append(out, c))
         ELSE IF c >= 194 /\ c <= 223 /\ IsCont(b, i + 1)
         THEN Utf8Loop(b, i + 2, Append(out, (c - 192) * 64 + (b[i+1] - 128)))
         ELSE IF /\ c >= 224 /\ c <= 239
                 /\ InRange(b, i + 1, IF c = 224 THEN 160 ELSE 128,
                                      IF c = 237 THEN 159 ELSE 191)
                 /\ IsCont(b, i + 2)
         THEN Utf8Loop(b, i + 3,
                       Append(out, (c - 224) * 4096 + (b[i+1] - 128) * 64
                                   + (b[i+2] - 128)))
         ELSE IF /\ c >= 240 /\ c <= 244
                 /\ InRange(b, i + 1, IF c = 240 THEN 144 ELSE 128,
                                      IF c = 244 THEN 143 ELSE 191)
                 /\ IsCont(b, i + 2)
                 /\ IsCont(b, i + 3)
         THEN Utf8Loop(b, i + 4,
                       Append(out, (c - 240) * 262144 + (b[i+1] - 128) * 4096
                                   + (b[i+2] - 128) * 64 + (b[i+3] - 128)))
         ELSE [ok |-> FALSE, text |-> <<>>]

utf8_decode(b) == Utf8Loop(b, 1, <<>>)

\* 'get_ftp_data' as code points
Sentinel == <<103, 101, 116, 95, 102, 116, 112, 95, 100, 97, 116, 97>>

\* pubsub_message of line 105: [ok, text]; ok is FALSE when either decoding
\* step raises
pubsub_message(ev) ==
    LET raw == b64decode(ev.data) IN
    IF ~raw.ok THEN [ok |-> FALSE, text |-> <<>>] ELSE utf8_decode(raw.bytes)

----------------------------------------------------------------------------
(* date.today() - timedelta(1) and strftime('%d-%m-%Y'), lines 114-115 *)

IsLeap(y) == y % 4 = 0 /\ (y % 100 /= 0 \/ y % 400 = 0)

DaysInMonth(y, m) ==
    IF m = 2 THEN (IF IsLeap(y) THEN 29 ELSE 28)
    ELSE IF m \in {4, 6, 9, 11} THEN 30 ELSE 31

DaysBeforeMonthTable == <<0, 31, 59, 90, 120, 151, 181, 212, 243, 273, 304, 334>>

DaysBeforeYear(y) ==
    LET y1 == y - 1 IN y1 * 365 + y1 \div 4 - y1 \div 100 + y1 \div 400

DaysBeforeMonth(y, m) ==
    DaysBeforeMonthTable[m] + (IF m > 2 /\ IsLeap(y) THEN 1 ELSE 0)

\* date.toordinal()
toordinal(d) == DaysBeforeYear(d[1]) + DaysBeforeMonth(d[1], d[2]) + d[3]

\* date.fromordinal(n)
fromordinal(ord) ==
    LET n0    == ord - 1
        n400  == n0 \div 146097
        r400  == n0 % 146097
        n100  == r400 \div 36524
        r100  == r400 % 36524
        n4    == r100 \div 1461
        r4    == r100 % 1461
        n1    == r4 \div 365
        n     == r4 % 365
        year  == n400 * 400 + 1 + n100 * 100 + n4 * 4 + n1
        leap  == n1 = 3 /\ (n4 /= 24 \/ n100 = 3)
        m0    == (n + 50) \div 32
        p0    == DaysBeforeMonthTable[m0] + (IF m0 > 2 /\ leap THEN 1 ELSE 0)
        month == IF p0 > n THEN m0 - 1 ELSE m0
        dim   == IF month = 2 THEN (IF leap THEN 29 ELSE 28)
                 ELSE IF month \in {4, 6, 9, 11} THEN 30 ELSE 31
        prec  == IF p0 > n THEN p0 - dim ELSE p0
    IN  IF n1 = 4 \/ n100 = 4 THEN <<year - 1, 12, 31>>
        ELSE <<year, month, n - prec + 1>>

\* timedelta(1)
timedelta_days == 1

\* yesterday with the day number decremented in place
yesterday_naive(d) == <<d[1], d[2], d[3] - 1>>

\* line 114
yesterday(d) == fromordinal(toordinal(d) - timedelta_days)

Digits == <<"0", "1", "2", "3", "4", "5", "6", "7", "8", "9">>
Digit(n) == Digits[n + 1]
Pad2(n) == <<Digit((n \div 10) % 10), Digit(n % 10)>>
Pad4(n) == <<Digit((n \div 1000) % 10), Digit((n \div 100) % 10)>> \o Pad2(n)

\* line 115: strftime('%d-%m-%Y')
strftime_dmY(d) == Pad2(d[3]) \o <<"-">> \o Pad2(d[2]) \o <<"-">> \o Pad4(d[1])

DotCsv == <<".", "c", "s", "v">>

\* line 120: ftp_configuration['path_to_file']
path_to_file(hostname, d) ==
    FtpPrefix \o hostname \o <<"/">> \o strftime_dmY(yesterday(d)) \o DotCsv

\* line 123
main_host(ptf) == re_sub_literal(FtpPrefix, FirstFtpUrlHead(ptf))

\* line 124
main_path(h, ptf) ==
    StripTrailingSlash(re_sub_literal(FtpPrefix \o h \o <<"/">>, ptf))

----------------------------------------------------------------------------
(* Constants of the program and of the services it calls *)

\* line 21
gc_write_dir == <<"/", "t", "m", "p">>

\* the directory the hosting process starts in
StartDir == <<"/", "w", "o", "r", "k">>

\* an absolute path made of a directory and a file name
Join(dir, name) == dir \o <<"/">> \o name

\* lines 79-81: the LoadJobConfig names no write disposition, so the load
\* job runs with the service's default
job_config_write_disposition == "WRITE_APPEND"

\* the warehouse's rule for the row count of a table after a load job
LoadRows(disposition, old, new) ==
    IF disposition = "WRITE_TRUNCATE" THEN new ELSE old + new

\* line 77
table_ref(project_id, dataset_id, table_id) ==
    project_id \o "." \o dataset_id \o "." \o table_id

NumRows(tbl, ref) == IF ref \in DOMAIN tbl THEN tbl[ref] ELSE 0

\* the attributes main reads, lines 109-119
ReadKeys == {"table_id", "dataset_id", "project_id", "hostname", "user", "password"}

None == <<"None">>

----------------------------------------------------------------------------
(* Trigger events the model draws from *)

B64Sentinel  == <<"Z","2","V","0","X","2","Z","0","c","F","9","k","Y","X","R","h">>
\* the same text with a character outside the alphabet in it
B64Spaced    == <<"Z","2","V","0"," ","X","2","Z","0","c","F","9","k","Y","X","R","h">>
\* 'get_ftp_data\n'
B64Newline   == B64Sentinel \o <<"C","g","=","=">>
\* 'get'
B64Get       == <<"Z","2","V","0">>
\* the byte 0xFF, which is not UTF-8
B64NotUtf8   == <<"/","w","=","=">>
\* 'e' with an acute accent, two bytes of UTF-8
B64TwoByte   == <<"w","6","k","=">>
\* incorrect padding
B64BadPad    == <<"Z","2","V","0","X","2","Z","0","c","F","9","k","Y","X","R">>
B64Empty     == <<>>

DataSamples == {B64Sentinel, B64Spaced, B64Newline, B64Get, B64NotUtf8,
                B64TwoByte, B64BadPad, B64Empty}

HostPlain == <<"h">>
HostDir   == <<"h", "/", "d">>
HostEmpty == <<>>
Hostnames == {HostPlain, HostDir, HostEmpty}

Attrs(hostname, user, wd) ==
    [table_id |-> "orders", dataset_id |-> "sales", project_id |-> "proj",
     hostname |-> hostname, user |-> user, password |-> "secret",
     location |-> "US", source_format |-> "CSV", write_disposition |-> wd]

Without(attrs, key) == [k \in DOMAIN attrs \ {key} |-> attrs[k]]

Event(d, attrs) == [data |-> d, attributes |-> attrs]

\* the events of the pipeline specification
Events ==
    { Event(B64Sentinel, Attrs(HostPlain, "u", "WRITE_APPEND")),
      Event(B64Spaced,   Attrs(HostDir, "u", "WRITE_TRUNCATE")),
      Event(B64Sentinel, Without(Attrs(HostPlain, "u", "WRITE_APPEND"), "password")),
      Event(B64Get,      Attrs(HostPlain, "u", "WRITE_APPEND")),
      Event(B64Newline,  Without(Attrs(HostPlain, "u", "WRITE_APPEND"), "hostname")),
      Event(B64NotUtf8,  Attrs(HostPlain, "u", "WRITE_APPEND")),
      Event(B64BadPad,   Attrs(HostPlain, "u", "WRITE_APPEND")) }

\* the events of the date sweep: every payload with every host name, with
\* and without a user name
DateEvents ==
    { Event(d, Attrs(h, u, "WRITE_APPEND")) :
        d \in DataSamples, h \in Hostnames, u \in {"u", ""} }

\* invocation date of the pipeline specification
Dates == { <<2024, 1, 1>> }

\* invocation dates of the date sweep
SweepYears == {1900, 2000, 2100} \cup (2023..LastYear)
SweepDates ==
    { dt \in (SweepYears \X (1..12) \X (1..31)) : dt[3] <= DaysInMonth(dt[1], dt[2]) }

----------------------------------------------------------------------------
(* State of an invocation *)

InFlight(p, i) == p[i] \notin {"idle", "done"}
NumInFlight(p) == Cardinality({i \in Inv : InFlight(p, i)})

\* ftp_configuration of lines 117-121, as get_file_ftp reads it
ftp_configuration(i) ==
    [user |-> event[i].attributes["user"],
     password |-> event[i].attributes["password"]]

\* table_ref of the invocation's load
TargetOf(i) ==
    table_ref(event[i].attributes["project_id"],
              event[i].attributes["dataset_id"],
              event[i].attributes["table_id"])

Step(name, ok) == [step |-> name, ok |-> ok]

\* did the file opened as wf exist in file system f
Residue(wp, f) ==
    IF wp = None THEN "none" ELSE IF wp \in DOMAIN f THEN "present" ELSE "absent"

\* main ends with outcome res, the file system being f from then on
End(i, res, f) ==
    /\ pc' = [pc EXCEPT ![i] = "done"]
    /\ result' = [result EXCEPT ![i] = res]
    /\ residue' = [residue EXCEPT ![i] = Residue(wfpath[i], f)]

Note(i, name, ok) == steps' = [steps EXCEPT ![i] = Append(@, Step(name, ok))]

Blank == [i \in Inv |-> None]

InitCommon ==
    /\ fs = << >>
    /\ table = << >>
    /\ retr = Blank
    /\ wfpath = Blank
    /\ wf = [i \in Inv |-> 0]
    /\ conn = [i \in Inv |-> "none"]
    /\ source = Blank
    /\ data = [i \in Inv |-> 0]
    /\ job = [i \in Inv |-> "none"]
    /\ logged = [i \in Inv |-> -1]
    /\ result = [i \in Inv |-> "none"]
    /\ steps = [i \in Inv |-> << >>]
    /\ residue = [i \in Inv |-> "none"]
    /\ before = [i \in Inv |-> {}]
    /\ clobbered = {}
    /\ maxInFlight = 0

Init ==
    /\ InitCommon
    /\ today \in Dates
    /\ cwd = StartDir
    /\ pc = [i \in Inv |-> "idle"]
    /\ event = Blank
    /\ host = Blank
    /\ path = Blank

----------------------------------------------------------------------------
(* main, lines 105-124: decode the payload, read the attributes, derive the *)
(* remote file reference.  No I/O happens here.                             *)

\* a prefix of t equals s
HasPrefix(t, s) == Len(t) >= Len(s) /\ SubSeq(t, 1, Len(s)) = s

\* EntryOutcome with the sentinel matched as a prefix of the message
EntryOutcome_prefix(ev) ==
    LET msg == pubsub_message(ev) IN
    IF ~msg.ok THEN "raise"
    ELSE IF ~HasPrefix(msg.text, Sentinel) THEN "noop"
    ELSE IF ~(ReadKeys \subseteq DOMAIN ev.attributes) THEN "raise"
    ELSE "go"

\* what lines 105-124 come to for event ev: "raise", "noop" or "go"
EntryOutcome(ev) ==
    LET msg == pubsub_message(ev) IN
    IF ~msg.ok THEN "raise"
    ELSE IF msg.text /= Sentinel THEN "noop"
    ELSE IF ~(ReadKeys \subseteq DOMAIN ev.attributes) THEN "raise"
    ELSE "go"

\* EntryOutcome of every event the specifications draw, tabulated
AllEvents == Events \cup DateEvents
OutcomeOf == [ev \in AllEvents |-> EntryOutcome(ev)]

\* invocations are numbered in the order in which they begin
main_entry(i, ev) ==
    /\ pc[i] = "idle"
    /\ \A j \in 1..(i - 1) : pc[j] /= "idle"
    /\ event' = [event EXCEPT ![i] = ev]
    /\ before' = [before EXCEPT ![i] = {j \in Inv : pc[j] = "done"}]
    /\ LET out == OutcomeOf[ev] IN
       IF out = "go"
       THEN LET ptf == path_to_file(ev.attributes["hostname"], today)
                h   == main_host(ptf)
            IN  /\ host' = [host EXCEPT ![i] = h]
                /\ path' = [path EXCEPT ![i] = main_path(h, ptf)]
                /\ pc' = [pc EXCEPT ![i] = "chdir"]
                /\ maxInFlight' =
                       IF NumInFlight(pc') > maxInFlight
                       THEN NumInFlight(pc') ELSE maxInFlight
                /\ UNCHANGED <<result, residue>>
       ELSE /\ End(i, IF out = "noop" THEN "ok" ELSE "raised", fs)
            /\ UNCHANGED <<host, path, maxInFlight>>
    /\ UNCHANGED <<today, cwd, fs, table, retr, wfpath, wf, conn, source, data,
                   job, logged, steps, clobbered>>

\* line 127: os.chdir(gc_write_dir)
main_chdir(i) ==
    /\ pc[i] = "chdir"
    /\ cwd' = gc_write_dir
    /\ pc' = [pc EXCEPT ![i] = "ftp"]
    /\ UNCHANGED <<today, fs, table, event, host, path, retr, wfpath, wf, conn,
                   source, data, job, logged, result, steps, residue, before,
                   clobbered, maxInFlight>>

----------------------------------------------------------------------------
(* get_file_ftp, lines 36-44 *)

\* FTP.__exit__: quit and close when there is a socket
ftp_exit(c) == IF c = "none" THEN "none" ELSE "closed"

\* file_location without the separator
file_location_noslash(filename) == gc_write_dir \o filename

\* line 41
file_location(filename) == Join(gc_write_dir, filename)

\* the path open(filename, 'wb') resolves to: relative to the process's cwd
resolve(dir, filename) == Join(dir, filename)

\* get_file_ftp raises: control is back in the caller's except clause
FetchRaises(i) ==
    /\ pc' = [pc EXCEPT ![i] = "fetch_raised"]
    /\ Note(i, "fetch", FALSE)

\* line 36: ftplib.FTP(host, user, passwd) connects when host is not empty
\* and then logs in when user is not empty; a failure inside the
\* constructor leaves the with block unentered, so __exit__ does not run
ftp_construct(i) ==
    /\ pc[i] = "ftp"
    /\ IF host[i] = << >>
       THEN /\ pc' = [pc EXCEPT ![i] = "open"]
            /\ UNCHANGED <<conn, steps>>
       ELSE \E outcome \in {"unreachable", "rejected", "ok"} :
            CASE outcome = "unreachable" ->
                   /\ FetchRaises(i)
                   /\ UNCHANGED conn
              [] outcome = "rejected" ->
                   /\ ftp_configuration(i).user /= ""
                   /\ conn' = [conn EXCEPT ![i] = "connected"]
                   /\ FetchRaises(i)
              [] outcome = "ok" ->
                   /\ conn' = [conn EXCEPT ![i] =
                                  IF ftp_configuration(i).user /= ""
                                  THEN "logged_in" ELSE "connected"]
                   /\ pc' = [pc EXCEPT ![i] = "open"]
                   /\ UNCHANGED steps
    /\ UNCHANGED <<today, cwd, fs, table, event, host, path, retr, wfpath, wf,
                   source, data, job, logged, result, residue, before,
                   clobbered, maxInFlight>>

\* the invocations other than i that have fetched the file at p and have not
\* yet transformed it
Victims(i, p) == {j \in Inv \ {i} : pc[j] = "fetched" /\ source[j] = p}

\* lines 37-38: open(filename, 'wb') creates the file or truncates the one
\* that is there
ftp_open_local(i) ==
    /\ pc[i] = "open"
    /\ LET filename == LastSegment(path[i])
           p == resolve(cwd, filename)
       IN  \E ok \in BOOLEAN :
             IF ok /\ filename /= << >>
             THEN /\ fs' = (p :> [ino  |-> IF p \in DOMAIN fs THEN fs[p].ino ELSE i,
                                  by   |-> i,
                                  rows |-> 0,
                                  complete |-> FALSE]) @@ fs
                  /\ wfpath' = [wfpath EXCEPT ![i] = p]
                  /\ wf' = [wf EXCEPT ![i] = fs'[p].ino]
                  /\ pc' = [pc EXCEPT ![i] = "retr"]
                  /\ clobbered' = clobbered \cup Victims(i, p)
                  /\ UNCHANGED <<conn, steps>>
             ELSE /\ conn' = [conn EXCEPT ![i] = ftp_exit(@)]
                  /\ FetchRaises(i)
                  /\ UNCHANGED <<fs, wfpath, wf, clobbered>>
    /\ UNCHANGED <<today, cwd, table, event, host, path, retr, source, data, job,
                   logged, result, residue, before, maxInFlight>>

\* line 39: RETR filename, each block written through wf; then wf is closed
\* and FTP.__exit__ runs; lines 41-44 on success
ftp_retr(i) ==
    /\ pc[i] = "retr"
    /\ LET filename == LastSegment(path[i])
           p == wfpath[i]
           mine == p \in DOMAIN fs /\ fs[p].ino = wf[i]
       IN  \E outcome \in {"fail", "ok"}, n \in 0..MaxRows :
             /\ conn' = [conn EXCEPT ![i] = ftp_exit(@)]
             /\ retr' = [retr EXCEPT ![i] = IF conn[i] = "none" THEN None ELSE filename]
             /\ IF outcome = "ok" /\ conn[i] = "logged_in"
                THEN /\ fs' = IF mine
                              THEN [fs EXCEPT ![p] = [ino |-> wf[i], by |-> i,
                                                      rows |-> n, complete |-> TRUE]]
                              ELSE fs
                     /\ source' = [source EXCEPT ![i] = file_location(filename)]
                     /\ pc' = [pc EXCEPT ![i] = "fetched"]
                     /\ Note(i, "fetch", TRUE)
                ELSE /\ n = 0
                     /\ FetchRaises(i)
                     /\ UNCHANGED <<fs, source>>
    /\ UNCHANGED <<today, cwd, table, event, host, path, wfpath, wf, data, job,
                   logged, result, residue, before, clobbered,
                   maxInFlight>>

----------------------------------------------------------------------------
(* main, lines 132-141 *)

\* the except clause returning the success value
except_return_ok == "ok"

\* line 134
except_return == "failed"

\* line 141
return_value == "ok"

\* lines 132-134
main_except(i) ==
    /\ pc[i] = "fetch_raised"
    /\ End(i, except_return, fs)
    /\ UNCHANGED <<today, cwd, fs, table, event, host, path, retr, wfpath, wf,
                   conn, source, data, job, logged, steps, before, clobbered,
                   maxInFlight>>

\* transform_to_dataframe, lines 61-64: one row per line after the header
transform_to_dataframe(file) == file.rows

\* line 136
main_transform(i) ==
    /\ pc[i] = "fetched"
    /\ \E ok \in BOOLEAN :
         IF ok /\ source[i] \in DOMAIN fs
         THEN /\ data' = [data EXCEPT ![i] = transform_to_dataframe(fs[source[i]])]
              /\ pc' = [pc EXCEPT ![i] = "load"]
              /\ Note(i, "transform", TRUE)
              /\ UNCHANGED <<result, residue>>
         ELSE /\ End(i, "raised", fs)
              /\ Note(i, "transform", FALSE)
              /\ UNCHANGED data
    /\ UNCHANGED <<today, cwd, fs, table, event, host, path, retr, wfpath, wf,
                   conn, source, job, logged, before, clobbered,
                   maxInFlight>>

\* the submitted job not waited for
after_submit_nowait == "get_table"

\* lines 84-87: the submitted job is waited for before anything else
after_submit == "wait"

\* load_data_bq, line 84: client.load_table_from_dataframe
load_submit(i) ==
    /\ pc[i] = "load"
    /\ \E ok \in BOOLEAN :
         IF ok
         THEN /\ job' = [job EXCEPT ![i] = "running"]
              /\ pc' = [pc EXCEPT ![i] = after_submit]
              /\ Note(i, "submit", TRUE)
              /\ UNCHANGED <<result, residue>>
         ELSE /\ End(i, "raised", fs)
              /\ Note(i, "submit", FALSE)
              /\ UNCHANGED job
    /\ UNCHANGED <<today, cwd, fs, table, event, host, path, retr, wfpath, wf,
                   conn, source, data, logged, before, clobbered,
                   maxInFlight>>

\* load_data_bq, line 87: load_job.result() blocks until the job is done;
\* a job that succeeds has written its rows to the table
load_result(i) ==
    /\ pc[i] = "wait"
    /\ \E ok \in BOOLEAN :
         IF ok
         THEN /\ job' = [job EXCEPT ![i] = "done"]
              /\ table' = (TargetOf(i) :>
                             LoadRows(job_config_write_disposition,
                                      NumRows(table, TargetOf(i)), data[i]))
                          @@ table
              /\ pc' = [pc EXCEPT ![i] = "get_table"]
              /\ Note(i, "wait", TRUE)
              /\ UNCHANGED <<result, residue>>
         ELSE /\ job' = [job EXCEPT ![i] = "failed"]
              /\ End(i, "raised", fs)
              /\ Note(i, "wait", FALSE)
              /\ UNCHANGED table
    /\ UNCHANGED <<today, cwd, fs, event, host, path, retr, wfpath, wf, conn,
                   source, data, logged, before, clobbered,
                   maxInFlight>>

\* load_data_bq, lines 89-91: client.get_table and the row count it reports
load_get_table(i) ==
    /\ pc[i] = "get_table"
    /\ \E ok \in BOOLEAN :
         IF ok
         THEN /\ logged' = [logged EXCEPT ![i] = NumRows(table, TargetOf(i))]
              /\ pc' = [pc EXCEPT ![i] = "remove"]
              /\ Note(i, "get_table", TRUE)
              /\ UNCHANGED <<result, residue>>
         ELSE /\ End(i, "raised", fs)
              /\ Note(i, "get_table", FALSE)
              /\ UNCHANGED logged
    /\ UNCHANGED <<today, cwd, fs, table, event, host, path, retr, wfpath, wf,
                   conn, source, data, job, before, clobbered,
                   maxInFlight>>

\* lines 139-141: os.remove(source), then return 'ok'
main_remove(i) ==
    /\ pc[i] = "remove"
    /\ IF source[i] \in DOMAIN fs
       THEN /\ fs' = [q \in DOMAIN fs \ {source[i]} |-> fs[q]]
            /\ clobbered' = clobbered \cup Victims(i, source[i])
            /\ End(i, return_value, fs')
            /\ Note(i, "remove", TRUE)
       ELSE /\ End(i, "raised", fs)
            /\ Note(i, "remove", FALSE)
            /\ UNCHANGED <<fs, clobbered>>
    /\ UNCHANGED <<today, cwd, table, event, host, path, retr, wfpath, wf, conn,
                   source, data, job, logged, before, maxInFlight>>

----------------------------------------------------------------------------
(* Specifications *)

\* the pipeline: MaxInv invocations of main, in any interleaving
Next ==
    \E i \in Inv :
        \/ \E ev \in Events : main_entry(i, ev)
        \/ main_chdir(i)
        \/ ftp_construct(i)
        \/ ftp_open_local(i)
        \/ ftp_retr(i)
        \/ main_except(i)
        \/ main_transform(i)
        \/ load_submit(i)
        \/ load_result(i)
        \/ load_get_table(i)
        \/ main_remove(i)

Spec == Init /\ [][Next]_vars

\* the date sweep: one invocation, on any date of the swept years, up to
\* the end of its retrieval
InitDates ==
    /\ InitCommon
    /\ today \in SweepDates
    /\ cwd = StartDir
    /\ pc = [i \in Inv |-> "idle"]
    /\ event = Blank
    /\ host = Blank
    /\ path = Blank

NextDates ==
    \/ \E ev \in DateEvents : main_entry(1, ev)
    \/ main_chdir(1)
    \/ ftp_construct(1)
    \/ ftp_open_local(1)
    \/ ftp_retr(1)

SpecDates == InitDates /\ [][NextDates]_vars

\* get_file_ftp on its own: called with any arguments from any directory
FtpPaths == { strftime_dmY(<<2023, 12, 31>>) \o DotCsv,
              <<"d", "/">> \o strftime_dmY(<<2023, 12, 31>>) \o DotCsv,
              <<"d", "/">> }

InitFtp ==
    /\ InitCommon
    /\ today \in Dates
    /\ cwd \in {gc_write_dir, StartDir}
    /\ pc = [i \in Inv |-> "ftp"]
    /\ event \in [Inv -> {Event(B64Sentinel, Attrs(HostPlain, u, "WRITE_APPEND")) :
                            u \in {"u", ""}}]
    /\ host \in [Inv -> {HostPlain, HostEmpty}]
    /\ path \in [Inv -> FtpPaths]

NextFtp ==
    \E i \in Inv :
        \/ ftp_construct(i)
        \/ ftp_open_local(i)
        \/ ftp_retr(i)

SpecFtp == InitFtp /\ [][NextFtp]_vars

----------------------------------------------------------------------------
(* Properties *)

Canon == <<"fetch", "transform", "submit", "wait", "get_table", "remove">>

Ended(i) == pc[i] = "done"

\* the payload decodes to a text other than the sentinel
DecodesToOther(ev) ==
    LET m == pubsub_message(ev) IN m.ok /\ m.text /= Sentinel
NoOpTable == [ev \in AllEvents |-> DecodesToOther(ev)]
NoOpPayload(ev) == NoOpTable[ev]

\* the payload's base64-decoded bytes are not the sentinel's
BytesOther(ev) ==
    LET raw == b64decode(ev.data) IN raw.ok /\ raw.bytes /= Sentinel
BytesOtherTable == [ev \in AllEvents |-> BytesOther(ev)]

HasStep(i, name, ok) == \E k \in 1..Len(steps[i]) : steps[i][k] = Step(name, ok)
FetchRaised(i) == HasStep(i, "fetch", FALSE)
AllCompleted(i) == steps[i] = [k \in 1..Len(Canon) |-> Step(Canon[k], TRUE)]
RemoveFailed(i) == HasStep(i, "remove", FALSE)

\* invocation i performed no I/O of its own
NoIO(i) ==
    /\ steps[i] = << >>
    /\ conn[i] = "none"
    /\ retr[i] = None
    /\ wfpath[i] = None
    /\ source[i] = None
    /\ job[i] = "none"
    /\ logged[i] = -1

\* C1 as stated: every invocation whose base64-decoded data is not the
\* sentinel returns 'ok' and performs no I/O.
C1_Original ==
    \A i \in Inv :
        (Ended(i) /\ BytesOtherTable[event[i]])
        => (result[i] = "ok" /\ NoIO(i))

\* C1, amended: every invocation whose data decodes (base64, then UTF-8) to
\* a text other than the sentinel returns 'ok' in its first step and performs
\* no I/O: that step leaves the working directory, the file system, the
\* connections, the load jobs and the table as they were, and the invocation
\* takes no further step.
C1_NoOpFrame ==
    /\ [](\A i \in Inv :
            (Ended(i) /\ NoOpPayload(event[i])) => (result[i] = "ok" /\ NoIO(i)))
    /\ [][\A i \in Inv :
            (pc[i] = "idle" /\ pc'[i] /= "idle" /\ NoOpPayload(event'[i]))
            => /\ pc'[i] = "done"
               /\ cwd' = cwd
               /\ fs' = fs
               /\ table' = table
               /\ conn' = conn
               /\ job' = job]_vars
    /\ [][\A i \in Inv : pc[i] = "done" => pc'[i] = "done"]_vars

C1_Witness ==
    \E i \in Inv :
        /\ Ended(i)
        /\ NoOpPayload(event[i])
        /\ result[i] = "ok"
        /\ cwd = StartDir

\* C2: when main returns a value, it is 'failed' exactly when get_file_ftp
\* raised, and 'ok' exactly when the payload was a no-op or fetch, transform,
\* load and deletion all completed; an invocation in which transform, load or
\* deletion raised ends without a returned value.
C2_ReturnValue ==
    \A i \in Inv :
        /\ (Ended(i) /\ result[i] \in {"ok", "failed"})
           => /\ result[i] = "failed" <=> FetchRaised(i)
              /\ result[i] = "ok" <=> (NoOpPayload(event[i]) \/ AllCompleted(i))
        /\ (\E name \in {"transform", "submit", "wait", "get_table", "remove"} :
                HasStep(i, name, FALSE))
           => (Ended(i) /\ result[i] = "raised")

C2_Witness ==
    \E i, j \in Inv :
        /\ result[i] = "failed" /\ FetchRaised(i)
        /\ result[j] = "ok" /\ AllCompleted(j)

\* C3 as stated: when the retrieval step of a sentinel invocation fails, main
\* returns 'failed' and no scratch file opened by the invocation exists when
\* it ends.
C3_Original ==
    \A i \in Inv :
        (Ended(i) /\ FetchRaised(i))
        => (result[i] = "failed" /\ residue[i] /= "present")

\* C4 as stated: an invocation whose Retriever produced the scratch file has
\* deleted it when it ends, whether it ends in success or in a failure of the
\* transform or load step.
C4_Original ==
    \A i \in Inv :
        (Ended(i) /\ HasStep(i, "fetch", TRUE)) => residue[i] = "absent"

\* the calendar day before d
PrevDay(d) ==
    IF d[3] > 1 THEN <<d[1], d[2], d[3] - 1>>
    ELSE IF d[2] > 1 THEN <<d[1], d[2] - 1, DaysInMonth(d[1], d[2] - 1)>>
    ELSE <<d[1] - 1, 12, 31>>

TwoDigits(n) ==
    IF n < 10 THEN <<"0", Digits[n + 1]>>
    ELSE <<Digits[(n \div 10) + 1], Digits[(n % 10) + 1]>>

\* DD-MM-YYYY.csv of the day before d
ExpectedName(d) ==
    LET p == PrevDay(d) IN
    TwoDigits(p[3]) \o <<"-">> \o TwoDigits(p[2]) \o <<"-">>
        \o TwoDigits(p[1] \div 100) \o TwoDigits(p[1] % 100) \o DotCsv

Successive(i, j) ==
    /\ i /= j
    /\ i \in before[j]
    /\ result[i] = "ok" /\ AllCompleted(i)
    /\ result[j] = "ok" /\ AllCompleted(j)
    /\ TargetOf(i) = TargetOf(j)
    /\ \A k \in Inv \ {i, j} : job[k] /= "done"

\* C6 as stated: after two successive successful invocations on one table,
\* the row count the second reports is the second file's row count under
\* WRITE_TRUNCATE and the sum of both under WRITE_APPEND.
C6_Original ==
    \A i, j \in Inv :
        Successive(i, j)
        => LET wd == event[j].attributes["write_disposition"] IN
           /\ wd = "WRITE_TRUNCATE" => logged[j] = data[j]
           /\ wd = "WRITE_APPEND" => logged[j] = data[i] + data[j]

\* C7 as stated: when get_file_ftp has returned or raised, no connection it
\* opened is still open.
C7_Original ==
    \A i \in Inv :
        pc[i] \in {"fetched", "fetch_raised"} => conn[i] \in {"none", "closed"}

\* C8 as stated: when get_file_ftp returns, the file it wrote lies in
\* gc_write_dir under the last segment of path_to_file and the returned path
\* names that file, whatever the caller's working directory.
C8_Original ==
    \A i \in Inv :
        pc[i] = "fetched"
        => /\ wfpath[i] = Join(gc_write_dir, LastSegment(path[i]))
           /\ source[i] = wfpath[i]

\* C9: the steps of an invocation are attempted at most once each, in the
\* order fetch, transform, submit, wait, get_table, remove, each only after
\* every earlier one completed; a failed job ends the invocation; the table
\* metadata is read and the scratch file removed only after the job is done.
C9_Order ==
    \A i \in Inv :
        /\ Len(steps[i]) <= Len(Canon)
        /\ \A k \in 1..Len(steps[i]) :
              /\ steps[i][k].step = Canon[k]
              /\ k < Len(steps[i]) => steps[i][k].ok
        /\ FetchRaised(i) => (data[i] = 0 /\ job[i] = "none")
        /\ job[i] = "failed" => Ended(i)
        /\ logged[i] /= -1 => job[i] = "done"
        /\ (\E ok \in BOOLEAN : HasStep(i, "remove", ok))
           => (job[i] = "done" /\ logged[i] /= -1)

C9_Witness ==
    \E i, j \in Inv :
        /\ AllCompleted(i) /\ result[i] = "ok"
        /\ HasStep(j, "wait", FALSE) /\ job[j] = "failed"

\* the file invocation j fetched is in place, as j wrote it
Intact(j) ==
    pc[j] \in {"fetched", "load", "wait", "get_table", "remove"}
    => (source[j] \in DOMAIN fs /\ fs[source[j]].by = j)

\* C10: as long as no two invocations have been in flight together, no
\* invocation's fetched file is truncated, rewritten or deleted by another
\* and no os.remove fails; with two in flight on one date both happen.
C10_NoRaceAlone ==
    maxInFlight <= 1
    => /\ clobbered = {}
       /\ \A j \in Inv : ~RemoveFailed(j) /\ Intact(j)

C10_Witness ==
    /\ maxInFlight >= 2
    /\ clobbered /= {}
    /\ \E i \in Inv : RemoveFailed(i) /\ result[i] = "raised"

====
